---- MODULE Spec2Model ----
(***************************************************************************)
(* Model of AutoLabMate's execution pipeline:                              *)
(*   - MonitorAgent (backend/agents/monitor.py): the Execution Tracker     *)
(*   - ExecutorAgent.execute_plan (backend/agents/executor.py)             *)
(*   - POST /api/execute and its background task (backend/main.py)         *)
(*   - ExecutorAgent._create_notebook, the plan compiler                   *)
(*                                                                         *)
(* Python values are modelled as follows.  A dict is a function whose      *)
(* DOMAIN is the set of keys present.  None is the integer None where an   *)
(* Optional[int] is expected and the string NoneStr where an               *)
(* Optional[str] is expected.  A formatted log message is the record       *)
(* [fmt, n, s] of its format string and the values substituted into it.    *)
(* Wall-clock readings (timestamp, last_updated, execution_time) are not   *)
(* carried: no result of the modelled operations is computed from them.    *)
(***************************************************************************)
EXTENDS Integers, Sequences, FiniteSets, TLC

VARIABLES
    executions,   \* MonitorAgent.executions : execution_id -> record
    logs,         \* MonitorAgent.logs       : execution_id -> list of entries
    ret,          \* value returned by the most recent Tracker call
    execs,        \* executions started by POST /api/execute, in order of arrival
    workspace,    \* files under ./workspace : <<directory, name>> -> writer
    http,         \* response of the most recent POST /api/execute
    loop,         \* the Tracker coroutine the event loop is running, if any
    reads,        \* status requests that arrived and wait for the event loop
    plan,         \* the steps of the plan handed to the compiler
    overlay,      \* the modifications the caller means, keyed by step number
    notebook      \* what _create_notebook produced for plan and overlay

vars == <<executions, logs, ret, execs, workspace, http, loop, reads,
          plan, overlay, notebook>>

----------------------------------------------------------------------------
(* Bounds *)

NumPlans  == 2      \* plan ids are 1..NumPlans
MaxStep   == 2      \* step numbers range over 0..MaxStep, totals stay one below
MaxLogLen == 2      \* entries stored over all logs in Spec and SpecLoop
MaxExecs  == 2      \* executions started in SpecExec
MaxReads  == 1      \* status requests waiting at once in SpecLoop
NumTracked == 1     \* execution ids written and read in Spec, SpecLoop and SpecLog
MaxLongLog == 52    \* entries stored per log in SpecLog
MaxColumns == 6     \* numeric columns of a dataset in SpecPlan

(* Python constants *)

None      == -1
NoneStr   == "None"
LogWindow == 50

PlanIds  == 1..NumPlans
Steps    == 0..MaxStep
OptSteps == Steps \cup {None}
OptTotals == {None, 0, MaxStep - 1}
Statuses == {"running", "completed", "failed"}
Terminal == {"completed", "failed"}
Etas     == {NoneStr, "2 minutes"}
Levels   == {"INFO", "ERROR"}

\* f"exec_{request.plan_id}"
ExecutionID(plan_id) == <<"exec_", plan_id>>

ExecutionIDs == {ExecutionID(p) : p \in PlanIds}
TrackedIDs   == {ExecutionID(p) : p \in 1..NumTracked}

----------------------------------------------------------------------------
(* dict helpers *)

EmptyDict == [k \in {} |-> None]

\* a store that keeps one value for all its keys
DictSetShared(d, k, v) == [x \in (DOMAIN d) \cup {k} |-> v]

\* d[k] = v
DictSet(d, k, v) == [x \in (DOMAIN d) \cup {k} |-> IF x = k THEN v ELSE d[x]]

\* d.get(k, default)
DictGet(d, k, default) == IF k \in DOMAIN d THEN d[k] ELSE default

\* Python's `a or b` on Optional[int]: None and 0 are falsy
PyOr(a, b) == IF a = None \/ a = 0 THEN b ELSE a

\* list[:n]
FirstN(s, n) == IF Len(s) <= n THEN s ELSE SubSeq(s, 1, n)

\* list[-n:]
LastN(s, n) == IF Len(s) <= n THEN s ELSE SubSeq(s, Len(s) - n + 1, Len(s))

RECURSIVE SumLen(_, _)
SumLen(d, keys) ==
    IF keys = {} THEN 0
    ELSE LET k == CHOOSE x \in keys : TRUE
         IN  Len(d[k]) + SumLen(d, keys \ {k})

\* number of log entries stored over all execution ids
Stored(l) == SumLen(l, DOMAIN l)

----------------------------------------------------------------------------
(* Log messages *)

\* f"Status updated: {status}"
StatusMsg(status) == [fmt |-> "Status updated: {status}", n |-> None, s |-> status]

\* f"Step {step_number} completed successfully" / f"Step {step_number} failed"
StepMsg(step_number, success) ==
    [fmt |-> IF success THEN "Step {step_number} completed successfully"
                        ELSE "Step {step_number} failed",
     n |-> step_number, s |-> ""]

\* a message passed to add_log by a caller; n tells messages apart
UserMsg(n) == [fmt |-> "message", n |-> n, s |-> ""]

----------------------------------------------------------------------------
(* MonitorAgent: the operations as functions of the agent's state          *)
(* m = [executions, logs]                                                  *)

Monitor(e, l) == [executions |-> e, logs |-> l]

\* a log that keeps the entries of the window only
add_log_windowed(m, execution_id, level, message, step) ==
    LET old   == DictGet(m.logs, execution_id, <<>>)
        entry == [level |-> level, message |-> message, step |-> step]
    IN  [m EXCEPT !.logs = DictSet(m.logs, execution_id,
                                   LastN(Append(old, entry), LogWindow))]

add_log(m, execution_id, level, message, step) ==
    LET old   == DictGet(m.logs, execution_id, <<>>)
        entry == [level |-> level, message |-> message, step |-> step]
    IN  [m EXCEPT !.logs = DictSet(m.logs, execution_id, Append(old, entry))]

\* lines 143-152: create the record lazily, then dict.update
update_execution_record(m, execution_id, status, current_step, total_steps, estimated_remaining) ==
    LET prior == DictGet(m.executions, execution_id,
                         [status |-> "unknown", current_step |-> None,
                          total_steps |-> None, estimated_remaining |-> NoneStr])
        rec   == [status              |-> status,
                  current_step        |-> PyOr(current_step, prior.current_step),
                  total_steps         |-> PyOr(total_steps, prior.total_steps),
                  estimated_remaining |-> estimated_remaining]
    IN  [m EXCEPT !.executions = DictSet(m.executions, execution_id, rec)]

\* an update that writes the record and appends nothing
update_execution_status_silent(m, execution_id, status, current_step, total_steps, estimated_remaining) ==
    update_execution_record(m, execution_id, status, current_step, total_steps,
                            estimated_remaining)

update_execution_status(m, execution_id, status, current_step, total_steps, estimated_remaining) ==
    add_log(update_execution_record(m, execution_id, status, current_step,
                                    total_steps, estimated_remaining),
            execution_id, "INFO", StatusMsg(status), None)

\* lines 176-189: the log line of the step
log_step_completion(m, execution_id, step_number, success) ==
    add_log(m, execution_id, IF success THEN "INFO" ELSE "ERROR",
            StepMsg(step_number, success), step_number)

handle_step_completion(m, execution_id, step_number, success) ==
    update_execution_status(log_step_completion(m, execution_id, step_number, success),
                            execution_id, "running", step_number, None, NoneStr)

\* lines 49-66: the result built from the record and the log list found for
\* the id, or the error result of the except clause when the progress
\* expression raises TypeError on a stored None
status_of(execution, log_entries) ==
    LET status  == DictGet(execution, "status", "unknown")
        current == DictGet(execution, "current_step", 0)
        total   == DictGet(execution, "total_steps", 0)
        eta     == DictGet(execution, "estimated_remaining", NoneStr)
        window  == LastN(log_entries, LogWindow)
        raises  == total = None \/ (total > 0 /\ current = None)
    IN  IF raises
        THEN [kind |-> "error", status |-> "error", error |-> "TypeError"]
        ELSE [kind |-> "ok",
              status |-> status,
              current_step |-> current,
              total_steps |-> total,
              logs |-> [i \in 1..Len(window) |-> window[i].message],
              estimated_remaining |-> eta,
              \* current / total * 100 as the fraction num/den
              progress_percent |-> IF total > 0
                                   THEN [num |-> current * 100, den |-> total]
                                   ELSE [num |-> 0, den |-> 1]]

\* a lookup by self.executions[execution_id]: KeyError for an id never written
get_execution_status_indexed(m, execution_id) ==
    IF execution_id \in DOMAIN m.executions
    THEN status_of(m.executions[execution_id], DictGet(m.logs, execution_id, <<>>))
    ELSE [kind |-> "error", status |-> "error", error |-> "KeyError"]

\* self.executions.get(execution_id, {}) and self.logs.get(execution_id, [])
get_execution_status(m, execution_id) ==
    status_of(DictGet(m.executions, execution_id, EmptyDict),
              DictGet(m.logs, execution_id, <<>>))

get_logs(m, experiment_id) == DictGet(m.logs, experiment_id, <<>>)

----------------------------------------------------------------------------
(* Tracker actions *)

NoReturn == [kind |-> "none"]
NoResponse == [code |-> 0]

Now == Monitor(executions, logs)

Install(m) == executions' = m.executions /\ logs' = m.logs

UpdateStatus(id, status, cs, ts, eta) ==
    /\ ret = NoReturn
    /\ Stored(logs) + 1 <= MaxLogLen
    /\ Install(update_execution_status(Now, id, status, cs, ts, eta))
    /\ ret' = NoReturn

AppendLog(id, level, n, step) ==
    /\ ret = NoReturn
    /\ Stored(logs) + 1 <= MaxLogLen
    /\ Install(add_log(Now, id, level, UserMsg(n), step))
    /\ ret' = NoReturn

OnStepCompleted(id, k, success) ==
    /\ ret = NoReturn
    /\ Stored(logs) + 2 <= MaxLogLen
    /\ Install(handle_step_completion(Now, id, k, success))
    /\ ret' = NoReturn

GetStatus(id) ==
    /\ ret = NoReturn
    /\ ret' = [kind |-> "status", id |-> id, result |-> get_execution_status(Now, id)]
    /\ UNCHANGED <<executions, logs>>

GetLogs(id) ==
    /\ ret = NoReturn
    /\ ret' = [kind |-> "logs", id |-> id, result |-> get_logs(Now, id)]
    /\ UNCHANGED <<executions, logs>>

----------------------------------------------------------------------------
(* ExecutorAgent.execute_plan                                              *)
(*                                                                         *)
(* env is what the environment does to one call:                           *)
(*   env.fault   the stage of execute_plan whose call raises, or "none"    *)
(*   env.run     what happens inside _execute_notebook                     *)
(*   env.pdf     whether rendering report.pdf works                        *)

Faults == {"none", "workspace", "compile", "write", "report"}
Runs   == {"exit0", "exit1", "timeout", "launch_fault"}

\* the environments that differ in what execute_plan gets to see
Envs ==
    {e \in [fault : Faults, run : Runs \cup {"not_run"}, pdf : {"ok", "fail", "not_tried"}] :
        /\ (e.run = "not_run") = (e.fault \in {"workspace", "compile", "write"})
        /\ (e.pdf = "not_tried") = (e.fault # "none")}

\* str(e) of the exception a stage raises
ErrText(stage) == <<"str(e)", stage>>

\* self.work_dir / plan_id
ExecDir(plan_id) == <<"workspace", plan_id>>

\* execute_plan raised before it reached _execute_notebook
NotRun == [outputs |-> EmptyDict, success |-> FALSE]

\* the dict _execute_notebook returns; it catches every exception itself
execute_notebook(run) ==
    CASE run = "exit0" ->
           [outputs |-> [stdout |-> "stdout", stderr |-> "", returncode |-> 0],
            success |-> TRUE]
      [] run = "exit1" ->
           [outputs |-> [stdout |-> "stdout", stderr |-> "Traceback", returncode |-> 1],
            success |-> FALSE]
      [] run = "timeout" ->
           [outputs |-> [error |-> "Execution timeout"], success |-> FALSE]
      [] OTHER ->
           [outputs |-> [error |-> ErrText(run)], success |-> FALSE]

\* what _generate_report writes to report.md, part by part
report_md(result) ==
    <<"# AutoLabMate Experimental Report", "Generated at: {time}",
      "## Analysis Results", "Analysis completed successfully.">>
    \o (IF result.success
        THEN <<"Execution time: {execution_time} seconds">>
             \o (IF DictGet(result.outputs, "stdout", "") # ""
                 THEN <<"## Execution Log", result.outputs["stdout"]>>
                 ELSE <<>>)
        ELSE <<>>)

\* a synthesizer without the fallback of lines 368-370
generate_report_pdf_only(exec_dir, pdf) == <<exec_dir, "report.pdf">>

\* the path _generate_report returns when writing report.md did not raise
generate_report(exec_dir, pdf) ==
    IF pdf = "ok" THEN <<exec_dir, "report.pdf">> ELSE <<exec_dir, "report.md">>

\* the files a call leaves in its directory
FilesWritten(env) ==
    (IF env.run # "not_run" THEN {"analysis.ipynb"} ELSE {})
    \cup (IF env.run # "not_run" THEN {"analysis.py"} ELSE {})
    \cup (IF env.run \in {"exit0", "exit1", "timeout"} THEN {"plots"} ELSE {})
    \cup (IF env.run # "not_run" /\ env.fault = "none" THEN {"report.md"} ELSE {})
    \cup (IF env.pdf = "ok" THEN {"report.pdf"} ELSE {})

\* an except clause that logs and raises again
PlanReraised(plan_id, stage) ==
    [raised |-> TRUE, status |-> "raised", error |-> ErrText(stage), plan_id |-> plan_id]

\* the except clause of execute_plan
PlanFailed(plan_id, stage) ==
    [raised |-> FALSE, status |-> "failed", error |-> ErrText(stage), plan_id |-> plan_id]

\* what execute_plan hands to its caller
execute_plan(plan_id, env) ==
    IF env.fault # "none"
    THEN PlanFailed(plan_id, env.fault)
    ELSE LET exec_dir == ExecDir(plan_id)
             result   == execute_notebook(env.run)
         IN  [raised        |-> FALSE,
              status        |-> "success",
              plan_id       |-> plan_id,
              notebook_path |-> <<exec_dir, "analysis.ipynb">>,
              report_path   |-> generate_report(exec_dir, env.pdf),
              outputs       |-> result.outputs]

----------------------------------------------------------------------------
(* POST /api/execute and the background task                               *)

\* the plans session.get(AnalysisPlan, ...) finds; NumPlans + 1 is not stored
StoredPlans == PlanIds
Requested   == PlanIds \cup {NumPlans + 1}

\* the handler up to its return; an HTTPException raised inside the try is
\* caught by `except Exception` and raised again with status 500
PostExecute(plan_id) ==
    /\ http = NoResponse
    /\ Len(execs) < MaxExecs
    /\ IF plan_id \notin StoredPlans
       THEN /\ http' = [code |-> 500, detail |-> "Execution failed: Plan not found"]
            /\ UNCHANGED execs
       ELSE /\ execs' = Append(execs, [pc           |-> "scheduled",
                                       plan_id      |-> plan_id,
                                       execution_id |-> ExecutionID(plan_id),
                                       exec_dir     |-> ExecDir(plan_id)])
            /\ http' = [code |-> 200, execution_id |-> ExecutionID(plan_id),
                        status |-> "running"]
    /\ UNCHANGED <<executions, logs, ret, workspace, loop, reads, plan, overlay, notebook>>

\* _execute_plan_background: execute_plan has no suspension point, so the
\* event loop runs the task to its end; the result is logged and dropped,
\* and monitor_agent is not called
ExecutePlanBackground(i, env) ==
    /\ i \in DOMAIN execs
    /\ execs[i].pc = "scheduled"
    /\ LET e == execs[i]
       IN  /\ execs' = [execs EXCEPT ![i] =
                          [pc           |-> "done",
                           plan_id      |-> e.plan_id,
                           execution_id |-> e.execution_id,
                           exec_dir     |-> e.exec_dir,
                           env          |-> env,
                           \* what _execute_notebook returned to execute_plan
                           result       |-> IF env.run = "not_run" THEN NotRun
                                            ELSE execute_notebook(env.run),
                           \* the content of report.md, when it was written
                           report       |-> IF env.fault = "none"
                                            THEN report_md(execute_notebook(env.run))
                                            ELSE <<>>,
                           outcome      |-> execute_plan(e.plan_id, env)]]
           /\ workspace' =
                [path \in (DOMAIN workspace)
                          \cup {<<e.exec_dir, f>> : f \in FilesWritten(env)} |->
                    IF path[1] = e.exec_dir /\ path[2] \in FilesWritten(env)
                    THEN i ELSE workspace[path]]
    /\ UNCHANGED <<executions, logs, ret, http, loop, reads, plan, overlay, notebook>>

\* GET /api/execute/{execution_id}: a result without current_step raises
\* KeyError in the handler, which answers 500
GetExecutionStatus(id) ==
    /\ http = NoResponse
    /\ GetStatus(id)
    /\ LET status == get_execution_status(Now, id)
       IN  http' = IF status.kind = "ok"
                   THEN [code |-> 200, execution_id |-> id, status |-> status.status]
                   ELSE [code |-> 500, detail |-> "Status check failed: 'current_step'"]
    /\ UNCHANGED <<execs, workspace, loop, reads, plan, overlay, notebook>>

\* no handler or agent ever adds a Report row
StoredReports == {}

\* GET /api/report/{experiment_id}: the HTTPException(404) raised inside the
\* try is caught by `except Exception` and raised again with status 500
GetReport(experiment_id) ==
    /\ http = NoResponse
    /\ http' = IF experiment_id \notin StoredReports
               THEN [code |-> 500, detail |-> "Report retrieval failed: Report not found"]
               ELSE [code |-> 200, experiment_id |-> experiment_id]
    /\ UNCHANGED <<executions, logs, ret, execs, workspace, loop, reads, plan, overlay,
                   notebook>>

\* the client takes the response; the model handles one request at a time
TakeResponse ==
    /\ http # NoResponse
    /\ http' = NoResponse
    /\ ret' = NoReturn
    /\ UNCHANGED <<executions, logs, execs, workspace, loop, reads, plan, overlay, notebook>>

NextExec ==
    \/ TakeResponse
    \/ \E plan_id \in Requested : PostExecute(plan_id)
    \/ \E i \in 1..MaxExecs, env \in Envs : ExecutePlanBackground(i, env)
    \/ \E id \in ExecutionIDs : GetExecutionStatus(id)

\* the caller takes the value a read returned; the model runs one Tracker
\* call at a time outside SpecLoop, each starting when the last has been taken
TakeResult ==
    /\ ret # NoReturn
    /\ ret' = NoReturn
    /\ UNCHANGED <<executions, logs>>

Idle == [op |-> "idle", pc |-> "return"]

\* modifications = None
NoModifications == EmptyDict

NotCompiled == [via |-> "none"]

Init ==
    /\ executions = EmptyDict
    /\ logs = EmptyDict
    /\ ret = NoReturn
    /\ execs = <<>>
    /\ workspace = EmptyDict
    /\ http = NoResponse
    /\ loop = Idle
    /\ reads = {}
    /\ plan = <<>>
    /\ overlay = NoModifications
    /\ notebook = NotCompiled

----------------------------------------------------------------------------
(* The Tracker's coroutines on the asyncio event loop, statement by        *)
(* statement.  A coroutine keeps the loop until it returns or reaches a    *)
(* suspension point; a status request that arrives meanwhile waits.        *)

\* an add_log that waits for I/O would let the loop switch at its await
SuspendsAtAddLog(pc) == pc = "add_log"

\* whether the coroutine can be suspended before the statement at pc:
\* `await self.add_log(...)` and `await self.update_execution_status(...)`
\* await coroutines that contain no suspension point themselves
Suspends(pc) == FALSE

\* the state the coroutine in l leaves when it has run to its end
Final(l) ==
    IF l.op = "update_execution_status"
    THEN update_execution_status(l.pre, l.id, l.status, l.cs, l.ts, l.eta)
    ELSE handle_step_completion(l.pre, l.id, l.k, l.success)

\* a pending read overlaps every write to its id that runs while it waits
Overlap(id) == {[r EXCEPT !.overlapped = r.overlapped \/ r.id = id] : r \in reads}

StartUpdateStatus(id, status, cs, ts, eta) ==
    /\ loop = Idle
    /\ Stored(logs) + 1 <= MaxLogLen
    /\ loop' = [op |-> "update_execution_status", pc |-> "update", id |-> id,
                status |-> status, cs |-> cs, ts |-> ts, eta |-> eta,
                k |-> None, success |-> TRUE, pre |-> Now]
    /\ reads' = Overlap(id)
    /\ UNCHANGED <<executions, logs, ret, execs, workspace, http, plan, overlay, notebook>>

StartStepCompletion(id, k, success) ==
    /\ loop = Idle
    /\ Stored(logs) + 2 <= MaxLogLen
    /\ loop' = [op |-> "handle_step_completion", pc |-> "step_log", id |-> id,
                status |-> "running", cs |-> k, ts |-> None, eta |-> NoneStr,
                k |-> k, success |-> success, pre |-> Now]
    /\ reads' = Overlap(id)
    /\ UNCHANGED <<executions, logs, ret, execs, workspace, http, plan, overlay, notebook>>

\* the next statement of the running coroutine
StepWrite ==
    /\ loop # Idle
    /\ CASE loop.pc = "step_log" ->
              /\ Install(log_step_completion(Now, loop.id, loop.k, loop.success))
              /\ loop' = [loop EXCEPT !.pc = "update"]
              /\ UNCHANGED reads
         [] loop.pc = "update" ->
              /\ Install(update_execution_record(Now, loop.id, loop.status, loop.cs,
                                                 loop.ts, loop.eta))
              /\ loop' = [loop EXCEPT !.pc = "add_log"]
              /\ UNCHANGED reads
         [] loop.pc = "add_log" ->
              /\ Install(add_log(Now, loop.id, "INFO", StatusMsg(loop.status), None))
              /\ loop' = Idle
              \* the write is whole: what a waiting read may now return
              /\ reads' = {IF r.id = loop.id
                           THEN [r EXCEPT !.allowed = @ \cup
                                   {get_execution_status(Monitor(executions', logs'), r.id)}]
                           ELSE r : r \in reads}
    \* the coroutine returns None to its caller
    /\ ret' = IF loop.pc = "add_log" THEN NoReturn ELSE ret
    /\ UNCHANGED <<execs, workspace, http, plan, overlay, notebook>>

\* a GET /api/execute/{id} arrives
RequestStatus(id) ==
    /\ Cardinality(reads) < MaxReads
    /\ LET during == loop # Idle /\ loop.id = id
       IN  reads' = reads \cup
             {[id |-> id, overlapped |-> during,
               allowed |-> {get_execution_status(IF during THEN loop.pre ELSE Now, id)}]}
    /\ UNCHANGED <<executions, logs, ret, execs, workspace, http, loop, plan, overlay, notebook>>

\* the event loop runs get_execution_status for a waiting request
ServeStatus(r) ==
    /\ r \in reads
    /\ loop = Idle \/ Suspends(loop.pc)
    /\ ret' = [kind |-> "status", id |-> r.id,
               result |-> get_execution_status(Now, r.id),
               overlapped |-> r.overlapped,
               \* with the result of the write in progress, once whole
               allowed |-> r.allowed \cup
                   (IF loop # Idle /\ loop.id = r.id
                    THEN {get_execution_status(Final(loop), r.id)} ELSE {})]
    /\ reads' = reads \ {r}
    /\ UNCHANGED <<executions, logs, execs, workspace, http, loop, plan, overlay, notebook>>

NextLoop ==
    \/ \E id \in TrackedIDs, status \in Statuses, cs \in {None, 1}, ts \in {None, MaxStep} :
          StartUpdateStatus(id, status, cs, ts, NoneStr)
    \/ \E id \in TrackedIDs, success \in BOOLEAN :
          StartStepCompletion(id, MaxStep, success)
    \/ StepWrite
    \/ \E id \in TrackedIDs : RequestStatus(id)
    \/ \E r \in reads : ServeStatus(r)

----------------------------------------------------------------------------
(* Long logs: add_log called again and again on one id *)

AppendLogLong(id) ==
    /\ ret = NoReturn
    /\ Len(get_logs(Now, id)) < MaxLongLog
    /\ Install(add_log(Now, id, "INFO", UserMsg(Len(get_logs(Now, id)) + 1), None))
    /\ ret' = NoReturn

othersOfTracker == <<execs, workspace, http, loop, reads, plan, overlay, notebook>>

Next ==
    \/ \E id \in TrackedIDs, status \in Statuses, cs \in OptSteps, ts \in OptTotals,
          eta \in Etas :
            UpdateStatus(id, status, cs, ts, eta) /\ UNCHANGED othersOfTracker
    \/ \E id \in TrackedIDs, level \in Levels, step \in {None} :
            AppendLog(id, level, Stored(logs) + 1, step) /\ UNCHANGED othersOfTracker
    \/ \E id \in TrackedIDs, k \in Steps, success \in BOOLEAN :
            OnStepCompleted(id, k, success) /\ UNCHANGED othersOfTracker
    \/ \E id \in TrackedIDs : GetStatus(id) /\ UNCHANGED othersOfTracker
    \/ \E id \in TrackedIDs : GetLogs(id) /\ UNCHANGED othersOfTracker
    \/ TakeResult /\ UNCHANGED othersOfTracker

Spec == Init /\ [][Next]_vars

SpecExec == Init /\ [][NextExec]_vars

SpecLoop == Init /\ [][NextLoop]_vars

NextLog ==
    \/ \E id \in TrackedIDs : AppendLogLong(id) /\ UNCHANGED othersOfTracker
    \/ \E id \in TrackedIDs :
            UpdateStatus(id, "running", 1, None, NoneStr) /\ UNCHANGED othersOfTracker
    \/ \E id \in TrackedIDs :
            OnStepCompleted(id, 1, TRUE) /\ UNCHANGED othersOfTracker
    \/ \E id \in TrackedIDs : GetStatus(id) /\ UNCHANGED othersOfTracker
    \/ \E id \in TrackedIDs : GetLogs(id) /\ UNCHANGED othersOfTracker
    \/ TakeResult /\ UNCHANGED othersOfTracker

SpecLog == Init /\ [][NextLog]_vars

----------------------------------------------------------------------------
(* The Tracker with several execution ids *)

\* the agent after a read: dict.get(key, default) stores nothing
after_read(m, execution_id) == m

ReadStatus(id) ==
    /\ ret = NoReturn
    /\ ret' = [kind |-> "status", id |-> id, result |-> get_execution_status(Now, id)]
    /\ Install(after_read(Now, id))

ReadLogs(id) ==
    /\ ret = NoReturn
    /\ ret' = [kind |-> "logs", id |-> id, result |-> get_logs(Now, id)]
    /\ Install(after_read(Now, id))

NextTwo ==
    \/ \E id \in ExecutionIDs, status \in {"running", "completed"}, cs \in {None, 1} :
            UpdateStatus(id, status, cs, None, NoneStr) /\ UNCHANGED othersOfTracker
    \/ \E id \in ExecutionIDs, level \in Levels :
            AppendLog(id, level, Stored(logs) + 1, None) /\ UNCHANGED othersOfTracker
    \/ \E id \in ExecutionIDs, success \in BOOLEAN :
            OnStepCompleted(id, 1, success) /\ UNCHANGED othersOfTracker
    \/ \E id \in ExecutionIDs : ReadStatus(id) /\ UNCHANGED othersOfTracker
    \/ \E id \in ExecutionIDs : ReadLogs(id) /\ UNCHANGED othersOfTracker
    \/ TakeResult /\ UNCHANGED othersOfTracker

SpecTwo == Init /\ [][NextTwo]_vars

----------------------------------------------------------------------------
(* The event loop while a child process runs.  _execute_plan_background is  *)
(* a coroutine awaited on the server's event loop; _execute_notebook calls  *)
(* subprocess.run, which returns only when the child has exited or the      *)
(* 300-second timeout has passed, and does not hand control to the loop.    *)

\* whether a task at pc keeps the event loop's thread
BlocksLoop(pc) == pc = "waiting"

\* the loop is free to run a handler or another task
LoopFree == \A i \in DOMAIN execs : ~BlocksLoop(execs[i].pc)

\* the task runs from its start up to subprocess.run
RunChild(i) ==
    /\ LoopFree
    /\ i \in DOMAIN execs
    /\ execs[i].pc = "scheduled"
    /\ execs' = [execs EXCEPT ![i].pc = "waiting"]
    /\ UNCHANGED <<executions, logs, ret, workspace, http, loop, reads, plan, overlay,
                   notebook>>

\* the child exits or times out; the task runs to its end
ChildExits(i, env) ==
    /\ i \in DOMAIN execs
    /\ execs[i].pc = "waiting"
    /\ env.fault = "none"
    /\ LET e == execs[i]
       IN  /\ execs' = [execs EXCEPT ![i] =
                          [pc           |-> "done",
                           plan_id      |-> e.plan_id,
                           execution_id |-> e.execution_id,
                           exec_dir     |-> e.exec_dir,
                           env          |-> env,
                           result       |-> execute_notebook(env.run),
                           report       |-> report_md(execute_notebook(env.run)),
                           outcome      |-> execute_plan(e.plan_id, env)]]
           /\ workspace' =
                [path \in (DOMAIN workspace)
                          \cup {<<e.exec_dir, f>> : f \in FilesWritten(env)} |->
                    IF path[1] = e.exec_dir /\ path[2] \in FilesWritten(env)
                    THEN i ELSE workspace[path]]
    /\ UNCHANGED <<executions, logs, ret, http, loop, reads, plan, overlay, notebook>>

\* a handler runs when the loop gets to it
HandleExecute(plan_id) == LoopFree /\ PostExecute(plan_id)

HandleStatus(id) == LoopFree /\ GetExecutionStatus(id)

HandleReport(experiment_id) == LoopFree /\ GetReport(experiment_id)

NextBlock ==
    \/ TakeResponse
    \/ \E plan_id \in Requested : HandleExecute(plan_id)
    \/ \E i \in 1..MaxExecs : RunChild(i)
    \/ \E i \in 1..MaxExecs, env \in Envs : ChildExits(i, env)
    \/ \E id \in ExecutionIDs : HandleStatus(id)
    \/ \E experiment_id \in PlanIds : HandleReport(experiment_id)

SpecBlock == Init /\ [][NextBlock]_vars

----------------------------------------------------------------------------
(* ExecutorAgent._create_notebook and _generate_step_code                  *)
(*                                                                         *)
(* A step is a dict: a function from field names to values.  A cell is     *)
(* [cell_type, source]; a source is the record [fmt, n, a, b] of the text  *)
(* template and the values formatted into it.  A list formatted into a     *)
(* template appears as its repr, so parameter values are strings.          *)

\* dict keys as Python compares them: the int 1 and the str "1" differ
IntKey(n) == <<"int", n>>
StrKey(n) == <<"str", n>>

\* {**step, **entry}
Merge(step, entry) ==
    [k \in (DOMAIN step) \cup (DOMAIN entry) |->
        IF k \in DOMAIN entry THEN entry[k] ELSE step[k]]

Source(fmt, n, a, b) == [fmt |-> fmt, n |-> n, a |-> a, b |-> b]

Markdown(src) == [cell_type |-> "markdown", source |-> src]
Code(src)     == [cell_type |-> "code", source |-> src]

\* `if columns:` on a list given by its repr
Truthy(columns) == columns # "[]"

\* a "parameters" value that is no dict (None, a list, a str): it has no .get
NotADict == [py_type |-> "not a dict"]

IsDict(parameters) == "py_type" \notin DOMAIN parameters

Raised(error) == [raised |-> TRUE, source |-> Source(error, None, "", "")]

\* a compiler that rejects what it does not recognize
placeholder_rejected(step) == Raised("ValueError: unknown action")

\* lines 234-237: the default fallback
placeholder(step) ==
    [raised |-> FALSE,
     source |-> Source("# Execute: {name} # Action: {action}",
                       DictGet(step, "step_number", None),
                       DictGet(step, "name", NoneStr), DictGet(step, "action", NoneStr))]

\* the code _generate_step_code returns, or the exception it raises: the
\* f-string of the load_data branch formats {len(df)} itself, and no df is
\* defined in the function or the module; parameters.get raises
\* AttributeError when parameters is no dict
generate_step_code(step) ==
    LET action      == DictGet(step, "action", NoneStr)
        parameters  == DictGet(step, "parameters", EmptyDict)
        no_get      == Raised("AttributeError: object has no attribute 'get'")
        code(f, a, b) == [raised |-> FALSE, source |-> Source(f, None, a, b)]
    IN  CASE action = "load_data" ->
               IF IsDict(parameters)
               THEN Raised("NameError: name 'df' is not defined")
               ELSE no_get
          [] action = "compute_stats" ->
               IF ~IsDict(parameters) THEN no_get
               ELSE IF Truthy(DictGet(parameters, "columns", "[]"))
               THEN code("stats_df = df[{columns}].describe()",
                         DictGet(parameters, "columns", "[]"), "")
               ELSE code("stats_df = df.describe()", "", "")
          [] action = "create_plot" ->
               IF ~IsDict(parameters) THEN no_get
               ELSE
               LET plot_type == DictGet(parameters, "plot_type", "histogram")
               IN  CASE plot_type = "histogram" ->
                          code("plt.hist(df['{column}'])", DictGet(parameters, "column", ""), "")
                     [] plot_type = "scatter" ->
                          code("plt.scatter(df['{x_col}'], df['{y_col}'])",
                               DictGet(parameters, "x", ""), DictGet(parameters, "y", ""))
                     [] OTHER -> placeholder(step)
          [] action = "compute_correlations" ->
               IF ~IsDict(parameters) THEN no_get
               ELSE IF Truthy(DictGet(parameters, "columns", "[]"))
               THEN code("corr = df[{columns}].corr()",
                         DictGet(parameters, "columns", "[]"), "")
               ELSE placeholder(step)
          [] action = "generate_report" ->
               code("# Report generation handled by backend", "", "")
          [] OTHER -> placeholder(step)

\* lines 134-136: the step that is compiled; the step's number is looked up
\* among the keys of modifications["steps"]
apply_modifications(step, modifications) ==
    LET entries == DictGet(modifications, "steps", EmptyDict)
        key     == IntKey(DictGet(step, "step_number", None))
    IN  IF DOMAIN modifications # {} /\ key \in DOMAIN entries
        THEN Merge(step, entries[key])
        ELSE step

TitleCell   == Markdown(Source("# AutoLabMate Analysis Report", None, "", ""))
ImportsCell == Code(Source("# Standard data science imports", None, "", ""))
SummaryHeaderCell == Markdown(Source("## Report Summary", None, "", ""))
SummaryCodeCell   == Code(Source("# Generate summary", None, "", ""))

\* f"## Step {step.get('step_number')}: {step.get('name')}"
HeaderCell(step) ==
    Markdown(Source("## Step {step_number}: {name}", DictGet(step, "step_number", None),
                    DictGet(step, "name", NoneStr), ""))

\* the notebook _create_notebook returns, or the exception that leaves it
create_notebook(steps, modifications) ==
    LET N        == Len(steps)
        compiled == [i \in 1..N |-> apply_modifications(steps[i], modifications)]
        codes    == [i \in 1..N |-> generate_step_code(compiled[i])]
        first    == CHOOSE i \in 1..N : codes[i].raised /\ \A j \in 1..(i - 1) : ~codes[j].raised
    IN  IF \E i \in 1..N : codes[i].raised
        THEN [kind |-> "raised", error |-> codes[first].source.fmt, cells |-> <<>>]
        ELSE [kind |-> "ok", error |-> "",
              cells |-> [j \in 1..(2 * N + 4) |->
                  CASE j = 1 -> TitleCell
                    [] j = 2 -> ImportsCell
                    [] j = 2 * N + 3 -> SummaryHeaderCell
                    [] j = 2 * N + 4 -> SummaryCodeCell
                    [] OTHER -> IF j % 2 = 1
                                THEN HeaderCell(compiled[(j - 1) \div 2])
                                ELSE Code(codes[(j - 2) \div 2].source)]]

\* the dict a JSON object is parsed into: every key is a str
json_object(d) == [k \in {StrKey(x[2]) : x \in DOMAIN d} |-> d[IntKey(k[2])]]

\* request.user_modifications for a body that carries the overlay
user_modifications(o) ==
    IF DOMAIN o = {} THEN o ELSE [steps |-> json_object(o["steps"])]

(* Inputs of the compiler *)

MaxStepNumber == 3    \* step numbers are 1..MaxStepNumber
MaxPlanLen    == 2    \* steps per plan

StepActions == {"load_data", "compute_stats", "generate_report"}

StepName(action) ==
    CASE action = "load_data" -> "Data Loading and Validation"
      [] action = "compute_stats" -> "Descriptive Statistics"
      [] OTHER -> "Generate Report"

StepParameters(action) ==
    CASE action = "load_data" -> [file_path |-> "t.csv", file_type |-> ".csv"]
      [] action = "compute_stats" -> [columns |-> "['x']"]
      [] OTHER -> [format |-> "pdf"]

\* the steps the planner writes
PlanStep(n, action) ==
    [step_number |-> n, name |-> StepName(action), action |-> action,
     parameters |-> StepParameters(action)]

PlanSteps == {PlanStep(n, a) : n \in 1..MaxStepNumber, a \in StepActions}

Plans == UNION {[1..n -> PlanSteps] : n \in 0..MaxPlanLen}

\* partial steps a user edit carries
Entries == {[name |-> "edited"], [action |-> "load_data"],
            [parameters |-> [columns |-> "['y']"]]}

Overlays ==
    {NoModifications}
    \cup {[steps |-> (IntKey(k) :> e)] : k \in 1..MaxStepNumber, e \in Entries}

InitCompile ==
    /\ executions = EmptyDict
    /\ logs = EmptyDict
    /\ ret = NoReturn
    /\ execs = <<>>
    /\ workspace = EmptyDict
    /\ http = NoResponse
    /\ loop = Idle
    /\ reads = {}
    /\ plan \in Plans
    /\ overlay \in Overlays
    /\ notebook = NotCompiled

othersOfCompiler == <<executions, logs, ret, execs, workspace, http, loop, reads>>

\* executor_agent.execute_plan(plan_id, steps, modifications) called with
\* the overlay as a Python dict
CreateNotebook ==
    /\ notebook = NotCompiled
    /\ notebook' = [via |-> "direct", doc |-> create_notebook(plan, overlay)]
    /\ UNCHANGED <<plan, overlay>>
    /\ UNCHANGED othersOfCompiler

\* POST /api/execute with the overlay in the body: the handler passes
\* request.user_modifications to the background task, which passes it to
\* execute_plan and so to _create_notebook
CreateNotebookFromRequest ==
    /\ notebook = NotCompiled
    /\ notebook' = [via |-> "request",
                    doc |-> create_notebook(plan, user_modifications(overlay))]
    /\ UNCHANGED <<plan, overlay>>
    /\ UNCHANGED othersOfCompiler

NextCompile ==
    \/ CreateNotebook
    \/ CreateNotebookFromRequest

SpecCompile == InitCompile /\ [][NextCompile]_vars

----------------------------------------------------------------------------
(* _generate_step_code on steps of every shape *)

HostileColumn  == "t']; import os; df['t"
HostileColumns == "0]; import os; df[0"

CaseActions ==
    {"load_data", "compute_stats", "create_plot", "compute_correlations",
     "generate_report", "frobnicate"}

Recognized ==
    {"load_data", "compute_stats", "create_plot", "compute_correlations", "generate_report"}

CaseParameters ==
    {EmptyDict, NotADict,
     [columns |-> "['x']"], [columns |-> HostileColumns],
     [column |-> "temp"], [column |-> HostileColumn],
     [plot_type |-> "pie"], [plot_type |-> "scatter"],
     [file_path |-> "t.csv", file_type |-> ".csv"]}

\* a step dict with or without a name
StepCase(n, named, action, parameters) ==
    Merge(IF named THEN [step_number |-> n, name |-> "Analysis"] ELSE [step_number |-> n],
          [action |-> action, parameters |-> parameters])

StepCases(n) ==
    {StepCase(n, named, a, p) : named \in BOOLEAN, a \in CaseActions, p \in CaseParameters}

\* a case alone, before a step that compiles, or after one
CasePlans ==
    {<<c>> : c \in StepCases(1)}
    \cup {<<c, PlanStep(2, "generate_report")>> : c \in StepCases(1)}
    \cup {<<PlanStep(1, "generate_report"), c>> : c \in StepCases(2)}

InitStep ==
    /\ executions = EmptyDict
    /\ logs = EmptyDict
    /\ ret = NoReturn
    /\ execs = <<>>
    /\ workspace = EmptyDict
    /\ http = NoResponse
    /\ loop = Idle
    /\ reads = {}
    /\ plan \in CasePlans
    /\ overlay = NoModifications
    /\ notebook = NotCompiled

\* self._generate_step_code(step) called on the first step of the plan
GenerateStepCode ==
    /\ notebook = NotCompiled
    /\ LET r == generate_step_code(plan[1])
       IN  notebook' = [via |-> "step",
                        doc |-> [kind  |-> IF r.raised THEN "raised" ELSE "ok",
                                 error |-> IF r.raised THEN r.source.fmt ELSE "",
                                 cells |-> IF r.raised THEN <<>> ELSE <<Code(r.source)>>]]
    /\ UNCHANGED <<plan, overlay>>
    /\ UNCHANGED othersOfCompiler

NextStep ==
    \/ GenerateStepCode
    \/ CreateNotebook

SpecStep == InitStep /\ [][NextStep]_vars

(* The text of a fragment.  A value pasted by the f-string appears in the  *)
(* fragment character by character; Chars gives the characters that       *)
(* matter to Python's tokenizer: a quote, a statement separator, a         *)
(* bracket, or any other character "c".                                    *)

Chars(value) ==
    CASE value = "" -> <<>>
      [] value = "[]" -> <<"[", "]">>
      [] value \in {"['x']", "['y']"} -> <<"[", "'", "c", "'", "]">>
      [] value = HostileColumn ->
           <<"c", "'", "]", ";", "c", ";", "c", "[", "'", "c">>
      [] value = HostileColumns ->
           <<"c", "]", ";", "c", ";", "c", "[", "c">>
      [] OTHER -> <<"c">>

\* templates that paste the value between quotes: df['{column}']
Quoted(fmt) ==
    fmt \in {"plt.hist(df['{column}'])", "plt.scatter(df['{x_col}'], df['{y_col}'])"}

\* the statement separators of chars that the tokenizer reads as code, when
\* the text starts inside a string literal (in_string) or outside one
RECURSIVE Separators(_, _)
Separators(chars, in_string) ==
    IF chars = <<>> THEN 0
    ELSE LET c == Head(chars)
         IN  IF c = "'" THEN Separators(Tail(chars), ~in_string)
             ELSE (IF c = ";" /\ ~in_string THEN 1 ELSE 0)
                  + Separators(Tail(chars), in_string)

\* the statements a pasted value adds to those of the template
AddedStatements(src) ==
    Separators(Chars(src.a), Quoted(src.fmt)) + Separators(Chars(src.b), Quoted(src.fmt))

----------------------------------------------------------------------------
(* PlannerAgent._generate_mock_plan *)

ColumnNames == {"temp", "ph"}

\* the lists dataset_info["numeric_columns"] ranges over
ColumnLists == UNION {[1..n -> ColumnNames] : n \in 0..MaxColumns}

\* dataset_info with each of its keys present or missing
Datasets ==
    {Merge(Merge(file_path, file_type), numeric_columns) :
        file_path       \in {EmptyDict, [file_path |-> "data.csv"]},
        file_type       \in {EmptyDict, [file_type |-> ".csv"], [file_type |-> ".xlsx"]},
        numeric_columns \in {EmptyDict} \cup {[numeric_columns |-> c] : c \in ColumnLists}}

\* a planner that numbers every added step 3
next_step_number_fixed(steps) == 3

\* len(steps) + 1
next_step_number(steps) == Len(steps) + 1

generate_mock_plan(dataset_info) ==
    LET numeric_cols == DictGet(dataset_info, "numeric_columns", <<>>)
        steps == << [step_number     |-> 1,
                     name            |-> "Data Loading and Validation",
                     action          |-> "load_data",
                     parameters      |-> [file_path |-> DictGet(dataset_info, "file_path", ""),
                                          file_type |-> DictGet(dataset_info, "file_type", ".csv")],
                     expected_output |-> "validated_dataframe",
                     estimated_time  |-> "30s"],
                    [step_number     |-> 2,
                     name            |-> "Descriptive Statistics",
                     action          |-> "compute_stats",
                     parameters      |-> [columns |-> numeric_cols],
                     expected_output |-> "statistics_summary",
                     estimated_time  |-> "1m"] >>
        plotted ==
            IF numeric_cols # <<>>
            THEN Append(steps,
                    [step_number     |-> next_step_number(steps),
                     name            |-> <<"Visualization: {column} Distribution",
                                           numeric_cols[1]>>,
                     action          |-> "create_plot",
                     parameters      |-> [plot_type |-> "histogram",
                                          column    |-> numeric_cols[1]],
                     expected_output |-> "plot_image",
                     estimated_time  |-> "1m"])
            ELSE steps
        correlated ==
            IF Len(numeric_cols) >= 2
            THEN Append(plotted,
                    [step_number     |-> next_step_number(plotted),
                     name            |-> "Correlation Analysis",
                     action          |-> "compute_correlations",
                     parameters      |-> [columns |-> FirstN(numeric_cols, 5)],
                     expected_output |-> "correlation_matrix",
                     estimated_time  |-> "2m"])
            ELSE plotted
        reported ==
            Append(correlated,
                    [step_number     |-> next_step_number(correlated),
                     name            |-> "Generate Report",
                     action          |-> "generate_report",
                     parameters      |-> [format |-> "pdf", include_plots |-> TRUE],
                     expected_output |-> "lab_report.pdf",
                     estimated_time  |-> "3m"])
    IN  [steps              |-> reported,
         estimated_duration |-> <<Len(reported) * 2, "minutes">>,
         confidence_score   |-> <<85, 100>>,
         metadata           |-> [generated_by            |-> "mock_planner",
                                 dataset_characteristics |-> dataset_info]]

\* the planner writes the plan of a dataset
GeneratePlan(dataset_info) ==
    /\ plan = <<>>
    /\ plan' = generate_mock_plan(dataset_info).steps
    /\ UNCHANGED <<overlay, notebook>>
    /\ UNCHANGED othersOfCompiler

NextPlan == \E dataset_info \in Datasets : GeneratePlan(dataset_info)

SpecPlan == Init /\ [][NextPlan]_vars

----------------------------------------------------------------------------
(* Properties *)

Min(a, b) == IF a <= b THEN a ELSE b

Done(i) == execs[i].pc = "done"

\* C1: once the record of an execution id holds a terminal state (completed
\* or failed), no later Tracker call changes that state.
C1_TerminalStateIsFinal ==
    [][\A id \in DOMAIN executions :
          executions[id].status \in Terminal
              => executions'[id].status = executions[id].status]_vars

\* C2: the status execute_plan returns is "success" exactly when the child
\* process exited with status 0, and "failed" when the child exited with a
\* non-zero status, timed out or could not be launched.
C2_StatusFollowsSandboxRun ==
    \A i \in DOMAIN execs :
        Done(i) =>
            /\ execs[i].env.fault = "none" =>
                   ((execs[i].outcome.status = "success") <=> (execs[i].env.run = "exit0"))
            /\ execs[i].env.run \in {"exit1", "timeout", "launch_fault"}
                   => execs[i].outcome.status = "failed"

\* C3: an execution started through POST /api/execute is recorded by the
\* Tracker under its execution id, and when its background task has ended
\* the record holds a terminal state.
C3_StartedExecutionEndsTerminal ==
    \A i \in DOMAIN execs :
        Done(i) =>
            /\ execs[i].execution_id \in DOMAIN executions
            /\ executions[execs[i].execution_id].status \in Terminal

\* C4: whichever stage raises, execute_plan does not raise to its caller: it
\* returns a status of "success" or "failed", and when the fault reached its
\* handler the status is "failed" and the error text is attached.
C4_ExecutePlanNeverRaises ==
    \A i \in DOMAIN execs :
        Done(i) =>
            /\ ~execs[i].outcome.raised
            /\ execs[i].outcome.status \in {"success", "failed"}
            /\ execs[i].env.fault # "none" =>
                   /\ execs[i].outcome.status = "failed"
                   /\ execs[i].outcome.error = ErrText(execs[i].env.fault)

\* an execution has ended whose report could not be written
C4_Witness ==
    \E i \in DOMAIN execs :
        /\ Done(i)
        /\ execs[i].env.fault = "report"
        /\ execs[i].outcome.status = "failed"

\* C5: get_execution_status returns a result with all six fields, with
\* current_step and total_steps integers, never the error result.
C5_StatusResultIsComplete ==
    ret.kind = "status" =>
        /\ ret.result.kind = "ok"
        /\ ret.result.current_step \in Nat
        /\ ret.result.total_steps \in Nat

\* C6: the progress_percent of a status result lies in [0, 100], equals
\* 100 * current_step / total_steps when total_steps > 0 and is 0 when
\* total_steps is 0.
C6_ProgressPercentInRange ==
    (ret.kind = "status" /\ ret.result.kind = "ok") =>
        LET r == ret.result
            p == r.progress_percent
        IN  /\ 0 <= p.num
            /\ p.num <= 100 * p.den
            /\ r.total_steps > 0 => p.num * r.total_steps = 100 * r.current_step * p.den
            /\ r.total_steps = 0 => p.num = 0

\* C7: in every record the current step does not exceed the total steps.
C7_CurrentStepWithinTotal ==
    \A id \in DOMAIN executions :
        (executions[id].current_step # None /\ executions[id].total_steps # None)
            => executions[id].current_step <= executions[id].total_steps

\* two executions that were started and have not run yet
Concurrent(i, j) == execs[i].pc = "scheduled" /\ execs[j].pc = "scheduled"

\* C8: two concurrent executions have distinct execution ids and distinct
\* workspace directories, so that neither writes the files of the other.
C8_ConcurrentExecutionsAreDisjoint ==
    \A i, j \in DOMAIN execs :
        (i # j /\ Concurrent(i, j)) =>
            /\ execs[i].execution_id # execs[j].execution_id
            /\ execs[i].exec_dir # execs[j].exec_dir

\* C9: a status read that overlaps a write to the same execution id returns
\* what get_execution_status returns before that write or after a whole
\* write, never a record that is partly written.
C9_ReadSeesWholeWrite ==
    (ret.kind = "status" /\ ret.overlapped) => ret.result \in ret.allowed

\* a read that waited through a write which changed the status result
C9_Witness ==
    /\ ret.kind = "status"
    /\ ret.overlapped
    /\ Cardinality(ret.allowed) >= 2
    /\ ret.result \in ret.allowed

\* C10: the log list of a status result has at most 50 entries, and it is
\* the messages of the last min(n, 50) of the n stored entries in the order
\* in which they were appended.
C10_LastFiftyInOrder ==
    (ret.kind = "status" /\ ret.result.kind = "ok") =>
        LET stored == get_logs(Now, ret.id)
            n      == Len(stored)
            k      == Min(n, 50)
            shown  == ret.result.logs
        IN  /\ Len(shown) <= 50
            /\ Len(shown) = k
            /\ \A i \in 1..k : shown[i] = stored[n - k + i].message

\* a status read of a log that holds more than 50 entries
C10_Witness ==
    /\ ret.kind = "status"
    /\ ret.result.kind = "ok"
    /\ Len(get_logs(Now, ret.id)) > 50
    /\ Len(ret.result.logs) = 50

\* C11: a status read of an execution id that was never written returns the
\* normal result with progress_percent 0, current_step 0, total_steps 0 and
\* an empty log list, never the error result.
C11_UnknownIdReadsEmpty ==
    (ret.kind = "status" /\ ret.id \notin DOMAIN executions /\ ret.id \notin DOMAIN logs) =>
        /\ ret.result.kind = "ok"
        /\ ret.result.progress_percent.num = 0
        /\ ret.result.current_step = 0
        /\ ret.result.total_steps = 0
        /\ ret.result.logs = <<>>

\* a status read of an id that has neither a record nor a log
C11_Witness ==
    /\ ret.kind = "status"
    /\ ret.id \notin DOMAIN executions
    /\ ret.id \notin DOMAIN logs
    /\ ret.result.kind = "ok"
    /\ ret.result.status = "unknown"

\* C12: update_execution_status changes only the fields it is given: an
\* omitted current_step, total_steps or estimated_remaining keeps the value
\* the record had, and a supplied one (0 included) becomes the record's value.
C12_UpdateChangesOnlyGivenFields ==
    [][\A id \in TrackedIDs, status \in Statuses, cs \in OptSteps, ts \in OptTotals,
          eta \in Etas :
            (id \in DOMAIN executions /\ UpdateStatus(id, status, cs, ts, eta)) =>
                /\ executions'[id].current_step =
                       IF cs = None THEN executions[id].current_step ELSE cs
                /\ executions'[id].total_steps =
                       IF ts = None THEN executions[id].total_steps ELSE ts
                /\ executions'[id].estimated_remaining =
                       IF eta = NoneStr THEN executions[id].estimated_remaining ELSE eta]_vars

\* the entries of log a are the first entries of log b, unaltered and in order
IsPrefix(a, b) == Len(a) <= Len(b) /\ SubSeq(b, 1, Len(a)) = a

\* C13: add_log on any execution id, known or not, leaves the stored log of
\* that id equal to its previous log with exactly one new entry at the end;
\* no Tracker call removes, reorders or alters an earlier entry of any log;
\* and get_logs returns the whole stored log, entries older than the last 50
\* included.
C13_LogIsAppendOnly ==
    [][/\ \A id \in DOMAIN logs :
              id \in DOMAIN logs' /\ IsPrefix(logs[id], logs'[id])
       /\ \A id \in TrackedIDs :
              AppendLogLong(id) =>
                  /\ Len(get_logs(Monitor(executions', logs'), id)) = Len(get_logs(Now, id)) + 1
                  /\ IsPrefix(get_logs(Now, id), get_logs(Monitor(executions', logs'), id))
                  /\ executions' = executions
       /\ (ret.kind = "none" /\ ret'.kind = "logs") =>
              ret'.result = DictGet(logs, ret'.id, <<>>)]_vars

\* get_logs returned more than 50 entries of a log, the oldest first
C13_Witness ==
    /\ ret.kind = "logs"
    /\ Len(ret.result) > LogWindow
    /\ ret.result = logs[ret.id]
    /\ ret.result[1] = logs[ret.id][1]

\* the exit statuses a child process can report: 0..255, or -N when signal
\* N ended it
RealExitCodes == (0 - 64)..255

\* C14: when the child process exceeds the timeout, the result of
\* _execute_notebook has success false, the timeout marker in the standard
\* error it captured, and an exit status distinct from every real exit code.
C14_TimeoutResultIsMarked ==
    \A i \in DOMAIN execs :
        (Done(i) /\ execs[i].env.run = "timeout") =>
            LET outputs == execs[i].result.outputs
            IN  /\ ~execs[i].result.success
                /\ "stderr" \in DOMAIN outputs
                /\ outputs["stderr"] = "Execution timeout"
                /\ "returncode" \in DOMAIN outputs
                /\ outputs["returncode"] \notin RealExitCodes

\* C15: _execute_notebook never raises: when the child process cannot be
\* launched, or another fault occurs inside the run, it returns a result
\* with success false and the error text in the standard error it captured.
C15_LaunchFaultIsCaptured ==
    \A i \in DOMAIN execs :
        (Done(i) /\ execs[i].env.run = "launch_fault") =>
            LET outputs == execs[i].result.outputs
            IN  /\ ~execs[i].result.success
                /\ "stderr" \in DOMAIN outputs
                /\ outputs["stderr"] = ErrText("launch_fault")

\* C16: when rendering report.pdf fails, _generate_report does not raise and
\* returns report.md; the path execute_plan returns always names a
\* report.pdf or report.md that exists in the execution's directory, and an
\* execution whose run succeeded is reported with status "success".
C16_ReportFallsBackToMarkdown ==
    \A i \in DOMAIN execs :
        (Done(i) /\ execs[i].env.fault = "none") =>
            LET o == execs[i].outcome
            IN  /\ ~o.raised
                /\ o.report_path \in {<<execs[i].exec_dir, "report.pdf">>,
                                       <<execs[i].exec_dir, "report.md">>}
                /\ o.report_path \in DOMAIN workspace
                /\ execs[i].env.pdf = "fail" =>
                       /\ o.report_path = <<execs[i].exec_dir, "report.md">>
                       /\ execs[i].env.run = "exit0" => o.status = "success"

\* an execution whose run exited with 0 and whose report.pdf could not be
\* rendered
C16_Witness ==
    \E i \in DOMAIN execs :
        /\ Done(i)
        /\ execs[i].env.fault = "none"
        /\ execs[i].env.run = "exit0"
        /\ execs[i].env.pdf = "fail"
        /\ execs[i].outcome.status = "success"
        /\ execs[i].outcome.report_path = <<execs[i].exec_dir, "report.md">>
        /\ <<execs[i].exec_dir, "report.pdf">> \notin DOMAIN workspace

\* C17: for a plan of N >= 0 steps _create_notebook returns a notebook of
\* the title and imports cells, then N pairs of a step header and a code
\* cell, then the summary header and summary code cells; a plan without
\* steps compiles to the four fixed cells.
C17_DocumentHasPreambleStepsClosing ==
    notebook.via # "none" =>
        LET N == Len(plan)
            d == notebook.doc
        IN  /\ d.kind = "ok"
            /\ Len(d.cells) = 2 * N + 4
            /\ d.cells[1] = TitleCell
            /\ d.cells[2] = ImportsCell
            /\ d.cells[2 * N + 3] = SummaryHeaderCell
            /\ d.cells[2 * N + 4] = SummaryCodeCell
            /\ \A i \in 1..N :
                   /\ d.cells[2 * i + 1].cell_type = "markdown"
                   /\ d.cells[2 * i + 1].source.fmt = "## Step {step_number}: {name}"
                   /\ d.cells[2 * i + 2].cell_type = "code"

\* C18: in a compiled notebook every step contributes its header followed
\* at once by its code cell, and the headers appear in ascending
\* step_number order, whatever the order and the numbers of the plan's steps.
C18_StepsInAscendingOrder ==
    (notebook.via # "none" /\ notebook.doc.kind = "ok") =>
        LET N == Len(plan)
            d == notebook.doc
        IN  /\ \A i \in 1..N :
                   /\ d.cells[2 * i + 1].cell_type = "markdown"
                   /\ d.cells[2 * i + 2].cell_type = "code"
            /\ \A i, j \in 1..N :
                   i < j => d.cells[2 * i + 1].source.n <= d.cells[2 * j + 1].source.n

\* C19: when the overlay has an entry for a step's step_number, the header
\* and the code compiled for that step are those of the original step with
\* every field of the entry replaced by the entry's value, for an overlay
\* passed to execute_plan directly and for one received through the
\* request's user_modifications.
C19_OverlayEntryIsMerged ==
    (notebook.via # "none" /\ notebook.doc.kind = "ok" /\ DOMAIN overlay # {}) =>
        \A i \in 1..Len(plan) :
            IntKey(plan[i]["step_number"]) \in DOMAIN overlay["steps"] =>
                LET entry  == overlay["steps"][IntKey(plan[i]["step_number"])]
                    merged == [k \in (DOMAIN plan[i]) \cup (DOMAIN entry) |->
                                  IF k \in DOMAIN entry THEN entry[k] ELSE plan[i][k]]
                IN  /\ notebook.doc.cells[2 * i + 1] = HeaderCell(merged)
                    /\ notebook.doc.cells[2 * i + 2] = Code(generate_step_code(merged).source)

\* the step numbers of a plan are pairwise distinct
UniqueStepNumbers(steps) ==
    \A i, j \in 1..Len(steps) : i # j => steps[i]["step_number"] # steps[j]["step_number"]

\* C20: for a plan with unique step numbers that compiles without overlay,
\* compiling with an overlay that has an entry for step number k only gives
\* a notebook whose title, imports and summary cells and whose cells of
\* every step other than k equal those of the compilation without overlay.
C20_OverlayChangesOnlyItsStep ==
    (notebook.via # "none" /\ UniqueStepNumbers(plan) /\ DOMAIN overlay # {}) =>
        LET base == create_notebook(plan, NoModifications)
            d    == notebook.doc
            N    == Len(plan)
            ofK(i) == IntKey(plan[i]["step_number"]) \in DOMAIN overlay["steps"]
        IN  base.kind = "ok" =>
                /\ d.kind = "ok"
                /\ Len(d.cells) = Len(base.cells)
                /\ \A j \in {1, 2, 2 * N + 3, 2 * N + 4} : d.cells[j] = base.cells[j]
                /\ \A i \in 1..N :
                       ~ofK(i) => /\ d.cells[2 * i + 1] = base.cells[2 * i + 1]
                                  /\ d.cells[2 * i + 2] = base.cells[2 * i + 2]

\* C21: _generate_step_code on a step whose action is not a recognized kind
\* does not raise, whatever the step's name and parameters are, and returns
\* the placeholder fragment with the step's name and step number.
C21_UnknownActionGivesPlaceholder ==
    (notebook.via = "step" /\ plan[1]["action"] \notin Recognized) =>
        /\ notebook.doc.kind = "ok"
        /\ notebook.doc.cells[1].source.fmt = "# Execute: {name} # Action: {action}"
        /\ notebook.doc.cells[1].source.n = plan[1]["step_number"]
        /\ notebook.doc.cells[1].source.a = DictGet(plan[1], "name", NoneStr)

\* the placeholder of a step with an unknown action and parameters that are
\* no dict
C21_Witness ==
    /\ notebook.via = "step"
    /\ plan[1]["action"] = "frobnicate"
    /\ plan[1]["parameters"] = NotADict
    /\ notebook.doc.kind = "ok"
    /\ notebook.doc.cells[1].source.fmt = "# Execute: {name} # Action: {action}"

\* a recognized action whose required parameters are missing or malformed
Malformed(step) ==
    LET action     == step["action"]
        parameters == step["parameters"]
    IN  /\ action \in Recognized
        /\ \/ ~IsDict(parameters)
           \/ action = "load_data" /\ "file_path" \notin DOMAIN parameters
           \/ /\ action = "create_plot"
              /\ DictGet(parameters, "plot_type", "histogram") = "histogram"
              /\ "column" \notin DOMAIN parameters
           \/ /\ action = "create_plot"
              /\ DictGet(parameters, "plot_type", "histogram") = "scatter"
              /\ {"x", "y"} \cap DOMAIN parameters = {}
           \/ /\ action = "create_plot"
              /\ DictGet(parameters, "plot_type", "histogram") \notin {"histogram", "scatter"}
           \/ action = "compute_correlations" /\ "columns" \notin DOMAIN parameters

\* C22: a plan with a step of a recognized action whose required parameters
\* are missing or malformed still compiles: the step's code cell is the
\* placeholder fragment with its name and number, and the other steps of
\* the plan are compiled as well.
C22_MalformedStepGivesPlaceholder ==
    notebook.via = "direct" =>
        \A i \in 1..Len(plan) :
            Malformed(plan[i]) =>
                /\ notebook.doc.kind = "ok"
                /\ Len(notebook.doc.cells) = 2 * Len(plan) + 4
                /\ notebook.doc.cells[2 * i + 2].source.fmt =
                       "# Execute: {name} # Action: {action}"
                /\ notebook.doc.cells[2 * i + 2].source.n = plan[i]["step_number"]

\* C25: a parameter value pasted into a fragment adds no statement to it:
\* the fragment has the statements of its template for every value.
C25_ParametersAreLiteralData ==
    (notebook.via = "step" /\ notebook.doc.kind = "ok") =>
        AddedStatements(notebook.doc.cells[1].source) = 0

C27_UpdateAppendsOneStatusEntry ==
    [][\A id \in ExecutionIDs, status \in {"running", "completed"}, cs \in {None, 1} :
            UpdateStatus(id, status, cs, None, NoneStr) =>
                DictGet(logs', id, <<>>) = Append(DictGet(logs, id, <<>>),
                                                  [level   |-> "INFO",
                                                   message |-> StatusMsg(status),
                                                   step    |-> None])]_vars

\* a record created by its first update, whose log holds the one status entry
C27_Witness ==
    \E id \in DOMAIN executions :
        /\ id \in DOMAIN logs
        /\ logs[id] = << [level   |-> "INFO",
                          message |-> StatusMsg(executions[id].status),
                          step    |-> None] >>
        /\ executions[id].status = "completed"

\* the parts of a report
Parts(report) == {report[j] : j \in DOMAIN report}

\* C24: the report of every execution result contains the wall-clock
\* duration exactly when the run succeeded, and contains the captured
\* standard output verbatim whenever that output is non-empty, for
\* succeeded and failed runs alike.
C24_ReportHasDurationAndStdout ==
    \A i \in DOMAIN execs :
        (execs[i].pc = "done" /\ execs[i].env.fault = "none") =>
            LET result == execs[i].result
                stdout == DictGet(result.outputs, "stdout", "")
            IN  /\ ("Execution time: {execution_time} seconds" \in Parts(execs[i].report))
                       = result.success
                /\ stdout # "" => stdout \in Parts(execs[i].report)

\* C28: a request for a record that does not exist is answered with 404:
\* POST /api/execute with a plan_id that has no stored plan answers 404
\* "Plan not found" and schedules no execution, and GET /api/report/{id}
\* for an id with no stored report answers 404 "Report not found".
C28_MissingRecordAnswers404 ==
    [][/\ \A plan_id \in Requested \ StoredPlans :
              PostExecute(plan_id) =>
                  /\ http' = [code |-> 404, detail |-> "Plan not found"]
                  /\ execs' = execs
       /\ \A experiment_id \in PlanIds \ StoredReports :
              GetReport(experiment_id) =>
                  http' = [code |-> 404, detail |-> "Report not found"]]_vars

\* C26: while an execution waits for its child process, a status read that
\* has arrived can be served and the task of another scheduled execution
\* can run, instead of waiting until the child exits or times out.
C26_ChildWaitIsSuspensionPoint ==
    \A i \in DOMAIN execs :
        (execs[i].pc = "waiting" /\ http = NoResponse /\ ret = NoReturn) =>
            /\ ENABLED (\E id \in ExecutionIDs : HandleStatus(id))
            /\ (\E j \in DOMAIN execs : execs[j].pc = "scheduled")
                   => ENABLED (\E j \in 1..MaxExecs : RunChild(j))

\* what is stored for id b is the same before and after the step
SameStored(b) ==
    /\ (b \in DOMAIN executions') = (b \in DOMAIN executions)
    /\ (b \in DOMAIN logs') = (b \in DOMAIN logs)
    /\ b \in DOMAIN executions => executions'[b] = executions[b]
    /\ b \in DOMAIN logs => logs'[b] = logs[b]

\* C29: update_execution_status, add_log and handle_step_completion on id a
\* leave the record and the log of every other id b as they were, and
\* get_execution_status and get_logs leave every record and log as they
\* were; a read of an unknown id creates neither a record nor a log.
C29_TrackerOperationsAreLocal ==
    [][/\ \A a \in ExecutionIDs :
              (\/ \E status \in Statuses, cs \in OptSteps :
                     UpdateStatus(a, status, cs, None, NoneStr)
               \/ \E level \in Levels : AppendLog(a, level, Stored(logs) + 1, None)
               \/ \E success \in BOOLEAN : OnStepCompleted(a, 1, success))
              => \A b \in ExecutionIDs \ {a} : SameStored(b)
       /\ \A a \in ExecutionIDs :
              (ReadStatus(a) \/ ReadLogs(a)) => \A b \in ExecutionIDs : SameStored(b)]_vars

\* two ids are stored and the last write went to one of them only
C29_Witness ==
    \E a \in DOMAIN executions, b \in DOMAIN executions :
        /\ a # b
        /\ executions[a].status = "completed"
        /\ executions[b].status = "running"
        /\ Len(logs[a]) = 1
        /\ Len(logs[b]) = 1

\* C30: the plan _generate_mock_plan writes for a dataset with zero, one or
\* several numeric columns has step numbers 1..N in list order, begins with
\* a load_data step, ends with a generate_report step, and every step
\* carries step_number, name, action and estimated_time.
C30_MockPlanIsNumberedAndFramed ==
    plan # <<>> =>
        /\ \A i \in 1..Len(plan) :
              /\ {"step_number", "name", "action", "estimated_time"} \subseteq DOMAIN plan[i]
              /\ plan[i]["step_number"] = i
        /\ plan[1]["action"] = "load_data"
        /\ plan[Len(plan)]["action"] = "generate_report"

\* the plan of a dataset with more than five numeric columns: five steps,
\* the correlations over the first five columns
C30_Witness ==
    /\ Len(plan) = 5
    /\ Len(plan[2]["parameters"]["columns"]) > 5
    /\ plan[3]["action"] = "create_plot"
    /\ Len(plan[4]["parameters"]["columns"]) = 5
    /\ plan[5]["step_number"] = 5

====
